---- MODULE Spec2Model ----
(***************************************************************************)
(* Model of base_firmware/extract.py: the prerequisite resolvers           *)
(* (prereq_hmx, prereq_unsquashfs, prereq_humidify, prereq_programs), the  *)
(* four-step extraction (extract), run_extraction and the program entry    *)
(* point.  The program is sequential; the state is the filesystem it       *)
(* touches, the working directory, the call stack with the position in the *)
(* running function, and the exception in flight.  External tools are      *)
(* opaque: each either leaves its expected file on disk or does not.       *)
(***************************************************************************)
EXTENDS Naturals, Sequences, FiniteSets, TLC

\* ------------------------------------------------------------------ paths
HMX == "original_firmware/hdpvr.hmx"
HUMIDIFY == "bin/humidify-linux-i386"
UNSQUASHFS == "firmware-mod-kit-read-only/trunk/src/squashfs-3.0/unsquashfs"
RAW == "TEMP_DIR/3.hdfbin-3-700000.raw"
SQUASHFS_ROOT == "TEMP_DIR/squashfs-root"
EXTRACTED_ROOT == "extracted_root"

\* Number of successive calls of a library entry point in one process.
MaxRuns == 2

\* ------------------------------------------------------------- exceptions
\* MissingPrerequisite derives from BaseException; the others are the
\* Exception subclasses raised by the library calls the code makes.
MP == "MissingPrerequisite"

ExceptionKinds == {"IOError", "OSError", "URLError", "BadZipfile", "KeyError", "shutil.Error"}

NoErr == [kind |-> "none", arg |-> "none"]

Exc(k, a) == [kind |-> k, arg |-> a]

None == << >>

\* ------------------------------------------------------------- functions
Resolvers == {"prereq_hmx", "prereq_unsquashfs", "prereq_humidify"}

LibraryEntries == Resolvers \cup {"prereq_programs", "extract"}

Entries == LibraryEntries \cup {"__main__"}

\* Side effects that reach the network or build something.
NetworkOrBuild == {"makedirs", "urlopen", "unzip", "chdir", "svn", "configure", "make"}

\* The external actions of the extraction pipeline.
PipelineTools == {"unpack", "decompress", "chown", "move"}

VARIABLES
    entry,      \* the function this run was started through
    destroy,    \* extract's destroy argument
    run,        \* number of the current call of the entry point
    stack,      \* call stack, innermost frame last
    pc,         \* position in the innermost frame
    fs,         \* the filesystem: output dir, scratch area, prerequisites
    start,      \* fs when the current call started
    cwd,        \* process working directory
    cwd0,       \* cwd when the current call started
    old_cwd,    \* prereq_unsquashfs: the saved working directory
    err,        \* exception in flight (or reaching the caller of the entry)
    raised,     \* the exception as it was first raised in this call
    result,     \* value returned by the last return
    calls,      \* side effects performed in this call, in order
    checked,    \* resolvers entered in this call, in order
    logged      \* components that logged the failure in this call, in order

vars == <<entry, destroy, run, stack, pc, fs, start, cwd, cwd0, old_cwd, err, raised, result, calls, checked, logged>>

\* ------------------------------------------------------------ filesystem
\* out : state of the configured output path (extracted_root)
\*   "absent" | "file" (a non-directory) | "old" (directory present when the
\*   call started) | "old_partial" (that directory, partly removed) |
\*   "tree" (exactly the tree moved from the scratch area) |
\*   "tree_partial" (a partly copied tree) | "nested" (the old directory with
\*   the new tree inside it)
OutDirs == {"old", "old_partial", "tree", "tree_partial", "nested"}

OutStates == {"absent", "file"} \cup OutDirs

\* tree : squashfs-root in the scratch area
\*   "absent" | "seeded" (there before step 2 ran) | "fresh" (written by the
\*   decompress tool in this process)
TreeStates == {"absent", "seeded", "fresh"}

FsStates == [out : OutStates, raw : BOOLEAN, tree : TreeStates, owner : {"user", "root"},
             hmx : BOOLEAN, hmxdir : BOOLEAN, zip : {"none", "good", "corrupt", "nomember", "dirmember"},
             unsq : BOOLEAN, fmk : BOOLEAN, humidify : BOOLEAN, scratch : BOOLEAN]

isdir(o) == o \in OutDirs

Top == stack[Len(stack)]

Pop == SubSeq(stack, 1, Len(stack) - 1)

\* Where the caller continues after the callee returned.
Continue(caller, callee) ==
    CASE caller = "prereq_programs" -> "pp_next"
      [] caller = "run_extraction" /\ callee = "prereq_programs" -> "re_extract"
      [] caller = "run_extraction" /\ callee = "extract" -> "re_return"
      [] caller = "__main__" /\ callee = "run_extraction" -> "main_cleanup"
      [] OTHER -> "done"

\* First position of a function.
Entry(f) ==
    CASE f = "prereq_hmx" -> "hmx_check"
      [] f = "prereq_unsquashfs" -> "unsq_check"
      [] f = "prereq_humidify" -> "hum_check"
      [] f = "prereq_programs" -> "pp_next"
      [] f = "extract" -> "ex_precond"
      [] f = "run_extraction" -> "re_prereq"
      [] f = "__main__" -> "main_call"

\* return val from the innermost frame
Return(val) ==
    /\ result' = val
    /\ stack' = Pop
    /\ pc' = IF Len(stack) = 1 THEN "done" ELSE Continue(stack[Len(stack) - 1], Top)

\* call f from the innermost frame
Call(f) ==
    /\ stack' = Append(stack, f)
    /\ pc' = Entry(f)

\* raise e in the innermost frame
Raise(e) ==
    /\ err' = e
    /\ raised' = e
    /\ pc' = "raise"

\* the exception leaves the innermost frame, which yields no value
Unwind ==
    /\ result' = None
    /\ stack' = Pop
    /\ pc' = IF Len(stack) = 1 THEN "done" ELSE "raise"

Did(c) == calls' = Append(calls, c)

In(f, at) == stack # << >> /\ Top = f /\ pc = at

\* ------------------------------------------------------------------ Init
\* TEMP_DIR is made by tempfile.mkdtemp() when the module is loaded, so the
\* scratch area exists.  When the program is run as a script the scratch area
\* is still empty; a caller of extract() may have put a raw image or a tree
\* there (a resumed run).
InitFs(e) ==
    {f \in FsStates :
        /\ f.scratch /\ f.zip = "none"
        /\ f.out \in {"absent", "file", "old"}
        /\ f.tree \in {"absent", "seeded"}
        /\ (f.tree = "absent" => f.owner = "user")
        /\ (f.hmx => f.hmxdir) /\ (f.unsq => f.fmk)
        /\ (e # "extract" => ~f.raw /\ f.tree = "absent")
        /\ (e = "extract" => f.hmx /\ f.unsq /\ f.humidify)
        /\ (e \in Resolvers \cup {"prereq_programs"} => f.out = "absent")}

Init ==
    /\ entry \in Entries
    /\ destroy \in (IF entry = "extract" THEN BOOLEAN ELSE {FALSE})
    /\ run = 1
    /\ stack = <<entry>>
    /\ pc = Entry(entry)
    /\ fs \in InitFs(entry)
    /\ start = fs
    /\ cwd \in (IF entry \in Resolvers THEN {"project", "elsewhere"} ELSE {"project"})
    /\ cwd0 = cwd
    /\ old_cwd = cwd
    /\ err = NoErr
    /\ raised = NoErr
    /\ result = None
    /\ calls = << >>
    /\ checked = << >>
    /\ logged = << >>

\* ------------------------------------------------------------ prereq_hmx
HmxExisting_NoCheck == FALSE

\* line 77: os.path.isfile(filename)
HmxExisting == fs.hmx

HmxCheck ==
    /\ In("prereq_hmx", "hmx_check")
    /\ checked' = Append(checked, "prereq_hmx")
    /\ IF HmxExisting
         THEN Return(<<HMX>>)
         ELSE pc' = "hmx_makedirs" /\ UNCHANGED <<stack, result>>
    /\ UNCHANGED <<entry, destroy, run, fs, start, cwd, cwd0, old_cwd, err, raised, calls, logged>>

\* lines 84-86: create the destination directory if it is missing
HmxMakedirs ==
    /\ In("prereq_hmx", "hmx_makedirs")
    /\ IF ~fs.hmxdir
         THEN fs' = [fs EXCEPT !.hmxdir = TRUE] /\ Did("makedirs")
         ELSE UNCHANGED <<fs, calls>>
    /\ pc' = "hmx_fetch"
    /\ UNCHANGED <<entry, destroy, run, stack, start, cwd, cwd0, old_cwd, err, raised, result, checked, logged>>

\* lines 88-90: download the archive into the scratch area.  urlopen raises
\* URLError when the download fails; what arrives is whatever the server sent.
HmxFetch ==
    /\ In("prereq_hmx", "hmx_fetch")
    /\ Did("urlopen")
    /\ \/ /\ Raise(Exc("URLError", "hdpvr.zip"))
          /\ UNCHANGED fs
       \/ /\ \E z \in {"good", "corrupt", "nomember", "dirmember"} : fs' = [fs EXCEPT !.zip = z]
          /\ pc' = "hmx_unzip"
          /\ UNCHANGED <<err, raised>>
    /\ UNCHANGED <<entry, destroy, run, stack, start, cwd, cwd0, old_cwd, result, checked, logged>>

\* lines 92-93: ZipFile() raises BadZipfile on a corrupt archive, extract()
\* raises KeyError when the member is not in it; a member that is a
\* directory entry is extracted as a directory, not a file.
HmxUnzip ==
    /\ In("prereq_hmx", "hmx_unzip")
    /\ Did("unzip")
    /\ CASE fs.zip = "corrupt" -> Raise(Exc("BadZipfile", "hdpvr.zip")) /\ UNCHANGED fs
         [] fs.zip = "nomember" -> Raise(Exc("KeyError", "hdpvr.hmx")) /\ UNCHANGED fs
         [] fs.zip = "good" -> fs' = [fs EXCEPT !.hmx = TRUE] /\ pc' = "hmx_recheck" /\ UNCHANGED <<err, raised>>
         [] OTHER -> pc' = "hmx_recheck" /\ UNCHANGED <<fs, err, raised>>
    /\ UNCHANGED <<entry, destroy, run, stack, start, cwd, cwd0, old_cwd, result, checked, logged>>

\* lines 95-99
HmxRecheck ==
    /\ In("prereq_hmx", "hmx_recheck")
    /\ IF fs.hmx
         THEN Return(<<HMX>>) /\ UNCHANGED <<err, raised>>
         ELSE Raise(Exc(MP, HMX)) /\ UNCHANGED <<stack, result>>
    /\ UNCHANGED <<entry, destroy, run, fs, start, cwd, cwd0, old_cwd, calls, checked, logged>>

\* ------------------------------------------------------- prereq_humidify
HumidifyOutcome_NoRaise(present) == "return"

\* lines 112-119: return the path when the file is there, raise otherwise
HumidifyOutcome(present) == IF present THEN "return" ELSE "raise"

HumCheck ==
    /\ In("prereq_humidify", "hum_check")
    /\ checked' = Append(checked, "prereq_humidify")
    /\ IF HumidifyOutcome(fs.humidify) = "return"
         THEN Return(<<HUMIDIFY>>) /\ UNCHANGED <<err, raised>>
         ELSE Raise(Exc(MP, HUMIDIFY)) /\ UNCHANGED <<stack, result>>
    /\ UNCHANGED <<entry, destroy, run, fs, start, cwd, cwd0, old_cwd, calls, logged>>

\* ----------------------------------------------------- prereq_unsquashfs
\* lines 133-148
UnsqCheck ==
    /\ In("prereq_unsquashfs", "unsq_check")
    /\ checked' = Append(checked, "prereq_unsquashfs")
    /\ IF fs.unsq
         THEN Return(<<UNSQUASHFS>>) /\ UNCHANGED old_cwd
         ELSE pc' = "unsq_svn" /\ old_cwd' = cwd /\ UNCHANGED <<stack, result>>
    /\ UNCHANGED <<entry, destroy, run, fs, start, cwd, cwd0, err, raised, calls, logged>>

\* lines 149-151, first command: chdir(PROJECT_ROOT); svn checkout.  The
\* checkout leaves the source tree on disk or it does not.
UnsqSvn ==
    /\ In("prereq_unsquashfs", "unsq_svn")
    /\ cwd' = "project"
    /\ calls' = calls \o <<"chdir", "svn">>
    /\ \E ok \in BOOLEAN : fs' = [fs EXCEPT !.fmk = fs.fmk \/ ok]
    /\ pc' = "unsq_configure"
    /\ UNCHANGED <<entry, destroy, run, stack, start, cwd0, old_cwd, err, raised, result, checked, logged>>

\* lines 149-151, second command: chdir(<source tree>); ./configure.
\* os.chdir raises OSError when the directory does not exist.
UnsqConfigure ==
    /\ In("prereq_unsquashfs", "unsq_configure")
    /\ IF fs.fmk
         THEN /\ cwd' = "fmk_src"
              /\ calls' = calls \o <<"chdir", "configure">>
              /\ pc' = "unsq_make"
              /\ UNCHANGED <<err, raised>>
         ELSE /\ Did("chdir")
              /\ Raise(Exc("OSError", "firmware-mod-kit-read-only/trunk/src"))
              /\ UNCHANGED cwd
    /\ UNCHANGED <<entry, destroy, run, stack, fs, start, cwd0, old_cwd, result, checked, logged>>

\* lines 149-151, third command: chdir(<source tree>); make.  The build
\* leaves the binary on disk or it does not.
UnsqMake ==
    /\ In("prereq_unsquashfs", "unsq_make")
    /\ cwd' = "fmk_src"
    /\ calls' = calls \o <<"chdir", "make">>
    /\ \E ok \in BOOLEAN : fs' = [fs EXCEPT !.unsq = fs.unsq \/ ok]
    /\ pc' = "unsq_restore"
    /\ UNCHANGED <<entry, destroy, run, stack, start, cwd0, old_cwd, err, raised, result, checked, logged>>

\* lines 153-159: restore the working directory, re-check the binary
UnsqRestore ==
    /\ In("prereq_unsquashfs", "unsq_restore")
    /\ cwd' = old_cwd
    /\ Did("chdir")
    /\ IF fs.unsq
         THEN Return(<<UNSQUASHFS>>) /\ UNCHANGED <<err, raised>>
         ELSE Raise(Exc(MP, UNSQUASHFS)) /\ UNCHANGED <<stack, result>>
    /\ UNCHANGED <<entry, destroy, run, fs, start, cwd0, old_cwd, checked, logged>>

\* ------------------------------------------------------- prereq_programs
ResolveOrder_NoHumidify == <<"prereq_hmx", "prereq_unsquashfs">>

ResolveOrder_Swapped == <<"prereq_hmx", "prereq_humidify", "prereq_unsquashfs">>

\* lines 226-228: the order in which the three resolvers are called
ResolveOrder == <<"prereq_hmx", "prereq_unsquashfs", "prereq_humidify">>

\* lines 225-233: call the next resolver, or return the three paths
PPNext ==
    /\ In("prereq_programs", "pp_next")
    /\ IF Len(checked) < Len(ResolveOrder)
         THEN Call(ResolveOrder[Len(checked) + 1]) /\ UNCHANGED result
         ELSE Return(<<HMX, UNSQUASHFS, HUMIDIFY>>)
    /\ UNCHANGED <<entry, destroy, run, fs, start, cwd, cwd0, old_cwd, err, raised, calls, checked, logged>>

\* --------------------------------------------------------------- extract
DestinationExists_IgnoresDestroy(o, d) == FALSE

DestinationExists_AnyPath(o, d) == o # "absent" /\ d = FALSE

\* line 172: os.path.isdir(extracted_root) and (destroy is False)
DestinationExists(o, d) == isdir(o) /\ d = FALSE

\* lines 172-175: refuse to touch an existing output directory
ExPrecond ==
    /\ In("extract", "ex_precond")
    /\ IF DestinationExists(fs.out, destroy)
         THEN Raise(Exc("IOError", EXTRACTED_ROOT))
         ELSE pc' = "ex_rmtree" /\ UNCHANGED <<err, raised>>
    /\ UNCHANGED <<entry, destroy, run, stack, fs, start, cwd, cwd0, old_cwd, result, calls, checked, logged>>

RemovesOld_Never(o) == FALSE

\* line 177: os.path.isdir(extracted_root)
RemovesOld(o) == isdir(o)

\* lines 177-178: shutil.rmtree(extracted_root).  rmtree unlinks entry by
\* entry: an empty directory goes in one step, a populated one is seen partly
\* removed before it is gone.
ExRmtree ==
    /\ In("extract", "ex_rmtree")
    /\ IF RemovesOld(fs.out)
         THEN /\ Did("rmtree")
              /\ \/ fs' = [fs EXCEPT !.out = "absent"] /\ pc' = "ex_step1"
                 \/ fs' = [fs EXCEPT !.out = "old_partial"] /\ pc' = "ex_rmtree_running"
         ELSE pc' = "ex_step1" /\ UNCHANGED <<fs, calls>>
    /\ UNCHANGED <<entry, destroy, run, stack, start, cwd, cwd0, old_cwd, err, raised, result, checked, logged>>

\* line 178, rmtree under way: it finishes, or an entry cannot be removed
\* and OSError is raised with the rest of the directory left behind.
ExRmtreeRunning ==
    /\ In("extract", "ex_rmtree_running")
    /\ \/ /\ fs' = [fs EXCEPT !.out = "absent"]
          /\ pc' = "ex_step1"
          /\ UNCHANGED <<err, raised>>
       \/ /\ Raise(Exc("OSError", EXTRACTED_ROOT))
          /\ UNCHANGED fs
    /\ UNCHANGED <<entry, destroy, run, stack, start, cwd, cwd0, old_cwd, result, calls, checked, logged>>

\* line 187: not os.path.isfile(raw_filename)
NeedsUnpack(raw) == ~raw

\* lines 187-189, 193-194: STEP 1, run the unpack tool unless the raw image
\* is already in the scratch area.  The tool leaves the file or it does not.
ExStep1 ==
    /\ In("extract", "ex_step1")
    /\ IF NeedsUnpack(fs.raw)
         THEN /\ cwd' = "temp"
              /\ calls' = calls \o <<"chdir", "unpack">>
              /\ \E made \in BOOLEAN : fs' = [fs EXCEPT !.raw = fs.raw \/ made]
              /\ pc' = "ex_step1_check"
         ELSE pc' = "ex_step2" /\ UNCHANGED <<fs, cwd, calls>>
    /\ UNCHANGED <<entry, destroy, run, stack, start, cwd0, old_cwd, err, raised, result, checked, logged>>

RawMissing_Unchecked(raw) == FALSE

\* line 191: not os.path.isfile(raw_filename), after the tool ran
RawMissing(raw) == ~raw

\* lines 191-192
ExStep1Check ==
    /\ In("extract", "ex_step1_check")
    /\ IF RawMissing(fs.raw)
         THEN Raise(Exc(MP, RAW))
         ELSE pc' = "ex_step2" /\ UNCHANGED <<err, raised>>
    /\ UNCHANGED <<entry, destroy, run, stack, fs, start, cwd, cwd0, old_cwd, result, calls, checked, logged>>

\* lines 196-201: STEP 2, run the decompress tool under sudo.  There is no
\* test of squashfs_root before the call.  The tool writes the tree (owned by
\* root) or leaves the scratch area as it was.
ExStep2 ==
    /\ In("extract", "ex_step2")
    /\ cwd' = "temp"
    /\ calls' = calls \o <<"chdir", "decompress">>
    /\ \/ fs' = [fs EXCEPT !.tree = "fresh", !.owner = "root"]
       \/ UNCHANGED fs
    /\ pc' = "ex_step2_check"
    /\ UNCHANGED <<entry, destroy, run, stack, start, cwd0, old_cwd, err, raised, result, checked, logged>>

TreeMissing_Unchecked(t) == FALSE

\* line 203: not os.path.isdir(squashfs_root)
TreeMissing(t) == t = "absent"

\* lines 203-204
ExStep2Check ==
    /\ In("extract", "ex_step2_check")
    /\ IF TreeMissing(fs.tree)
         THEN Raise(Exc(MP, SQUASHFS_ROOT))
         ELSE pc' = "ex_chown" /\ UNCHANGED <<err, raised>>
    /\ UNCHANGED <<entry, destroy, run, stack, fs, start, cwd, cwd0, old_cwd, result, calls, checked, logged>>

\* lines 206-210: STEP 3, sudo chown -R; its outcome is not looked at
ExChown ==
    /\ In("extract", "ex_chown")
    /\ Did("chown")
    /\ \E o \in {"user", fs.owner} : fs' = [fs EXCEPT !.owner = o]
    /\ pc' = "ex_move"
    /\ UNCHANGED <<entry, destroy, run, stack, start, cwd, cwd0, old_cwd, err, raised, result, checked, logged>>

\* line 214: STEP 4, shutil.move(squashfs_root, extracted_root).
\*   destination is a directory: the tree is moved inside it;
\*   destination is a non-directory: rename and the copy both fail;
\*   destination absent: os.rename, and when rename fails (the scratch area
\*   is on another filesystem) copytree followed by rmtree of the source, or
\*   the move fails before anything is written.
ExMove ==
    /\ In("extract", "ex_move")
    /\ Did("move")
    /\ CASE isdir(fs.out) ->
              /\ fs' = [fs EXCEPT !.out = "nested", !.tree = "absent"]
              /\ pc' = "ex_postcheck"
              /\ UNCHANGED <<err, raised>>
         [] fs.out = "file" ->
              /\ Raise(Exc("OSError", EXTRACTED_ROOT))
              /\ UNCHANGED fs
         [] OTHER ->
              \/ /\ fs' = [fs EXCEPT !.out = "tree", !.tree = "absent"]
                 /\ pc' = "ex_postcheck"
                 /\ UNCHANGED <<err, raised>>
              \/ /\ fs' = [fs EXCEPT !.out = "tree_partial"]
                 /\ pc' = "ex_move_copying"
                 /\ UNCHANGED <<err, raised>>
              \/ /\ Raise(Exc("OSError", EXTRACTED_ROOT))
                 /\ UNCHANGED fs
    /\ UNCHANGED <<entry, destroy, run, stack, start, cwd, cwd0, old_cwd, result, checked, logged>>

\* line 214, the copy of shutil.move under way: copytree completes and the
\* source is removed; or copytree raises shutil.Error with part of the tree
\* copied; or the copy completes and the source, still owned by root, cannot
\* be removed.
ExMoveCopying ==
    /\ In("extract", "ex_move_copying")
    /\ \/ /\ fs' = [fs EXCEPT !.out = "tree", !.tree = "absent"]
          /\ pc' = "ex_postcheck"
          /\ UNCHANGED <<err, raised>>
       \/ /\ Raise(Exc("shutil.Error", SQUASHFS_ROOT))
          /\ UNCHANGED fs
       \/ /\ fs.owner = "root"
          /\ fs' = [fs EXCEPT !.out = "tree"]
          /\ Raise(Exc("OSError", SQUASHFS_ROOT))
    /\ UNCHANGED <<entry, destroy, run, stack, start, cwd, cwd0, old_cwd, result, calls, checked, logged>>

\* lines 216-219
ExPostcheck ==
    /\ In("extract", "ex_postcheck")
    /\ IF ~isdir(fs.out)
         THEN Raise(Exc(MP, EXTRACTED_ROOT)) /\ UNCHANGED <<stack, result>>
         ELSE Return(<<EXTRACTED_ROOT>>) /\ UNCHANGED <<err, raised>>
    /\ UNCHANGED <<entry, destroy, run, fs, start, cwd, cwd0, old_cwd, calls, checked, logged>>

\* ------------------------------------------------- exception propagation
\* A frame without a handler: the exception leaves the function.
Propagate ==
    /\ pc = "raise"
    /\ stack # << >>
    /\ Top \in Resolvers \cup {"extract"}
    /\ Unwind
    /\ UNCHANGED <<entry, destroy, run, fs, start, cwd, cwd0, old_cwd, err, raised, calls, checked, logged>>

\* lines 229-231: except MissingPrerequisite: log, raise.  Any other
\* exception passes through.
PPExcept ==
    /\ In("prereq_programs", "raise")
    /\ logged' = IF err.kind = MP THEN Append(logged, "prereq_programs") ELSE logged
    /\ Unwind
    /\ UNCHANGED <<entry, destroy, run, fs, start, cwd, cwd0, old_cwd, err, raised, calls, checked>>

\* -------------------------------------------------------- run_extraction
\* line 240
REPrereq ==
    /\ In("run_extraction", "re_prereq")
    /\ Call("prereq_programs")
    /\ UNCHANGED <<entry, destroy, run, fs, start, cwd, cwd0, old_cwd, err, raised, result, calls, checked, logged>>

\* line 241: extract(hmx_file, unsquashfs, humidify), destroy left False
REExtract ==
    /\ In("run_extraction", "re_extract")
    /\ Call("extract")
    /\ UNCHANGED <<entry, destroy, run, fs, start, cwd, cwd0, old_cwd, err, raised, result, calls, checked, logged>>

\* line 241: return what extract returned
REReturn ==
    /\ In("run_extraction", "re_return")
    /\ Return(result)
    /\ UNCHANGED <<entry, destroy, run, fs, start, cwd, cwd0, old_cwd, err, raised, calls, checked, logged>>

REExcept_ReturnsRoot ==
    /\ In("run_extraction", "raise")
    /\ IF err.kind = MP
         THEN /\ logged' = Append(logged, "run_extraction")
              /\ err' = NoErr
              /\ Return(<<EXTRACTED_ROOT>>)
         ELSE /\ Unwind
              /\ UNCHANGED <<err, logged>>
    /\ UNCHANGED <<entry, destroy, run, fs, start, cwd, cwd0, old_cwd, raised, calls, checked>>

\* lines 242-243: except MissingPrerequisite: log, and fall off the end of
\* the function (None is returned).  Any other exception passes through.
REExcept ==
    /\ In("run_extraction", "raise")
    /\ IF err.kind = MP
         THEN /\ logged' = Append(logged, "run_extraction")
              /\ err' = NoErr
              /\ Return(None)
         ELSE /\ Unwind
              /\ UNCHANGED <<err, logged>>
    /\ UNCHANGED <<entry, destroy, run, fs, start, cwd, cwd0, old_cwd, raised, calls, checked>>

\* -------------------------------------------------------------- __main__
\* line 247
MainCall ==
    /\ In("__main__", "main_call")
    /\ Call("run_extraction")
    /\ UNCHANGED <<entry, destroy, run, fs, start, cwd, cwd0, old_cwd, err, raised, result, calls, checked, logged>>

MainCatches_OnlyMP(kind) == kind = MP

\* lines 248, 250: except MissingPrerequisite / except Exception
MainCatches(kind) == kind = MP \/ kind \in ExceptionKinds

\* lines 248-251: a caught failure is reported and the script goes on to the
\* clean-up; an exception no clause catches ends the process there.
MainExcept ==
    /\ In("__main__", "raise")
    /\ IF MainCatches(err.kind)
         THEN /\ logged' = IF err.kind = MP THEN Append(logged, "__main__") ELSE logged
              /\ err' = NoErr
              /\ pc' = "main_cleanup"
         ELSE /\ pc' = "exit"
              /\ UNCHANGED <<err, logged>>
    /\ result' = None
    /\ UNCHANGED <<entry, destroy, run, stack, fs, start, cwd, cwd0, old_cwd, raised, calls, checked>>

\* What rmtree can remove without privilege: everything but a tree that is
\* still owned by root (steps 2 and 3).
Removable(f) == ~(f.tree # "absent" /\ f.owner = "root")

\* line 254: shutil.rmtree(TEMP_DIR, ignore_errors=True)
MainCleanup ==
    /\ In("__main__", "main_cleanup")
    /\ Did("rmtree_temp")
    /\ fs' = IF Removable(fs)
               THEN [fs EXCEPT !.scratch = FALSE, !.raw = FALSE, !.zip = "none", !.tree = "absent", !.owner = "user"]
               ELSE [fs EXCEPT !.raw = FALSE, !.zip = "none"]
    /\ pc' = "exit"
    /\ UNCHANGED <<entry, destroy, run, stack, start, cwd, cwd0, old_cwd, err, raised, result, checked, logged>>

\* ------------------------------------------------------- repeated calls
\* What a directory left at the output path, and a tree left in the scratch
\* area, are to the next call: things that were there when it started.
Relabel(f) ==
    [f EXCEPT !.out = IF isdir(f.out) THEN "old" ELSE f.out,
              !.tree = IF f.tree = "fresh" THEN "seeded" ELSE f.tree]

\* The caller of a library function calls it again in the same process.
CallAgain ==
    /\ pc = "done"
    /\ entry \in LibraryEntries
    /\ run < MaxRuns
    /\ run' = run + 1
    /\ destroy' \in (IF entry = "extract" THEN BOOLEAN ELSE {FALSE})
    /\ stack' = <<entry>>
    /\ pc' = Entry(entry)
    /\ fs' = Relabel(fs)
    /\ start' = Relabel(fs)
    /\ cwd0' = cwd
    /\ err' = NoErr
    /\ raised' = NoErr
    /\ result' = None
    /\ calls' = << >>
    /\ checked' = << >>
    /\ logged' = << >>
    /\ UNCHANGED <<entry, cwd, old_cwd>>

Next ==
    \/ HmxCheck \/ HmxMakedirs \/ HmxFetch \/ HmxUnzip \/ HmxRecheck
    \/ HumCheck
    \/ UnsqCheck \/ UnsqSvn \/ UnsqConfigure \/ UnsqMake \/ UnsqRestore
    \/ PPNext \/ PPExcept
    \/ ExPrecond \/ ExRmtree \/ ExRmtreeRunning \/ ExStep1 \/ ExStep1Check
    \/ ExStep2 \/ ExStep2Check \/ ExChown \/ ExMove \/ ExMoveCopying \/ ExPostcheck
    \/ Propagate
    \/ REPrereq \/ REExtract \/ REReturn \/ REExcept
    \/ MainCall \/ MainExcept \/ MainCleanup
    \/ CallAgain

Spec == Init /\ [][Next]_vars

\* ------------------------------------------------------------ properties
Has(c) == \E i \in 1..Len(calls) : calls[i] = c

IsPipelineTool(c) == c \in PipelineTools

\* The external tools of the pipeline invoked so far in this call, in order.
ToolCalls == SelectSeq(calls, IsPipelineTool)

IsPrefix(s, t) == Len(s) <= Len(t) /\ \A i \in 1..Len(s) : s[i] = t[i]

PathOf(r) ==
    CASE r = "prereq_hmx" -> HMX
      [] r = "prereq_unsquashfs" -> UNSQUASHFS
      [] r = "prereq_humidify" -> HUMIDIFY

PresentAtStart(r) ==
    CASE r = "prereq_hmx" -> start.hmx
      [] r = "prereq_unsquashfs" -> start.unsq
      [] r = "prereq_humidify" -> start.humidify

ExtractEnded == entry = "extract" /\ pc = "done"

\* C1: when the output directory exists and destroy is False, extract fails
\* without invoking any external tool (no unpack, decompress, chown, move),
\* without removing anything, and the output directory stays as it was.
C1_NoToolWhenDestinationExists ==
    (isdir(start.out) /\ ~destroy) =>
        /\ ToolCalls = << >>
        /\ ~Has("rmtree")
        /\ fs.out = start.out
        /\ result # <<EXTRACTED_ROOT>>
        /\ (ExtractEnded => err # NoErr /\ result = None)

C1_Witness ==
    /\ ExtractEnded /\ start.out = "old" /\ ~destroy
    /\ err.kind = "IOError" /\ calls = << >> /\ fs.out = "old"

\* C2: each step is skipped when its output is already in the scratch area:
\* a raw image present at the start means the unpack tool is never invoked,
\* and a tree present at the start means the decompress tool is never invoked.
C2_SkipOnResume ==
    /\ (start.raw => ~Has("unpack"))
    /\ (start.tree # "absent" => ~Has("decompress"))

\* C3: extract with destroy=True on an existing output directory, when it
\* returns, leaves exactly the tree moved from the scratch area at the output
\* path: nothing of the old directory, no nesting.
C3_OverwriteReplaces ==
    (ExtractEnded /\ err = NoErr /\ destroy /\ isdir(start.out)) =>
        /\ fs.out = "tree"
        /\ result = <<EXTRACTED_ROOT>>

C3_Witness ==
    /\ ExtractEnded /\ err = NoErr /\ destroy /\ start.out = "old"
    /\ fs.out = "tree" /\ Has("rmtree") /\ Has("move")

\* C4: when the raw image is absent before and after the unpack tool ran,
\* extract raises MissingPrerequisite(raw image path) and the decompress tool,
\* chown and the move are not invoked.
C4_UnpackOutputMissing ==
    (~start.raw /\ ~fs.raw /\ Has("unpack") /\ ~Has("rmtree_temp")) =>
        /\ ToolCalls = <<"unpack">>
        /\ (pc # "ex_step1_check" => raised = Exc(MP, RAW))
        /\ (pc = "raise" => err = Exc(MP, RAW))
        /\ (ExtractEnded => err = Exc(MP, RAW) /\ result = None)

C4_Witness ==
    /\ ExtractEnded /\ ~start.raw /\ ~fs.raw
    /\ ToolCalls = <<"unpack">> /\ err = Exc(MP, RAW)

\* C5: prereq_programs resolves firmware image, decompress tool, unpack tool
\* in that order and stops at the first MissingPrerequisite: the role that
\* raised is the last one entered, nothing is built after a missing firmware
\* image, and the exception that leaves prereq_programs is the one raised.
C5_FixedOrderFailFast ==
    /\ IsPrefix(checked, <<"prereq_hmx", "prereq_unsquashfs", "prereq_humidify">>)
           \/ entry \in Resolvers
    /\ (raised.kind = MP /\ raised.arg \in {HMX, UNSQUASHFS, HUMIDIFY}) =>
           /\ checked # << >>
           /\ PathOf(checked[Len(checked)]) = raised.arg
           /\ (raised.arg = HMX => ~Has("svn") /\ ~Has("configure") /\ ~Has("make"))
           /\ (pc = "raise" => err = raised)
           /\ (entry = "prereq_programs" /\ pc = "done" => err = raised /\ result = None)

C5_Witness ==
    /\ entry = "prereq_programs" /\ pc = "done"
    /\ err = Exc(MP, UNSQUASHFS)
    /\ checked = <<"prereq_hmx", "prereq_unsquashfs">>
    /\ ~fs.humidify

\* C6: resolving a role whose file is present returns the canonical path and
\* does nothing else: no download, unzip, checkout, configure, make, mkdir or
\* chdir; the filesystem and the working directory are as at the call.
C6_PresentIsNoOp ==
    /\ \A r \in Resolvers :
           (entry = r /\ PresentAtStart(r)) =>
               /\ calls = << >> /\ fs = start /\ cwd = cwd0 /\ err = NoErr
               /\ (pc = "done" => result = <<PathOf(r)>>)
    /\ (entry = "prereq_programs" /\ \A r \in Resolvers : PresentAtStart(r)) =>
           /\ calls = << >> /\ fs = start /\ cwd = cwd0 /\ err = NoErr
           /\ (pc = "done" => result = <<HMX, UNSQUASHFS, HUMIDIFY>>)

C6_Witness ==
    /\ entry = "prereq_hmx" /\ run = 2 /\ pc = "done"
    /\ start.hmx /\ fs.zip = "good" /\ result = <<HMX>> /\ calls = << >>

\* C7: with the unpack tool absent, prereq_humidify raises
\* MissingPrerequisite(unpack tool path) and does nothing on the network or
\* the build side, whatever the other prerequisites are.
C7_UnpackToolNeverObtained ==
    /\ (entry = "prereq_humidify" /\ ~start.humidify) =>
           /\ calls = << >> /\ fs = start /\ cwd = cwd0
           /\ (pc = "done" => err = Exc(MP, HUMIDIFY) /\ result = None)
    /\ (checked # << >> /\ checked[Len(checked)] = "prereq_humidify" /\ ~fs.humidify) =>
           raised = Exc(MP, HUMIDIFY)

C7_Witness ==
    /\ entry = "prereq_humidify" /\ pc = "done"
    /\ ~start.humidify /\ ~start.hmx /\ ~start.unsq
    /\ err = Exc(MP, HUMIDIFY)

\* C8: when the firmware image is absent at the call and still absent when
\* prereq_hmx ends, the exception that leaves it is
\* MissingPrerequisite(firmware path) and no other kind.
C8_OnlyMissingPrerequisite ==
    (entry = "prereq_hmx" /\ pc = "done" /\ ~start.hmx /\ ~fs.hmx) =>
        err = Exc(MP, HMX)

\* C9: the output path is at every moment absent (or the non-directory it
\* was), the complete old tree or the complete new tree; and extract ends
\* either returning with the complete new tree in place or failing with no new
\* directory at the output path.
C9_AllOrNothing ==
    /\ fs.out \in {"absent", "file", "old", "tree"}
    /\ ExtractEnded =>
           IF err = NoErr
             THEN fs.out = "tree" /\ result = <<EXTRACTED_ROOT>>
             ELSE fs.out \in {"absent", "file", "old"}

\* C10 as stated: when the script ends after a normal return or a caught
\* failure, the scratch area is gone.
C10_ScratchDeleted ==
    (entry = "__main__" /\ pc = "exit" /\ err = NoErr) => ~fs.scratch

\* C10 (amended): every run of the script ends after the removal of the
\* scratch area was attempted; the raw image and the archive are gone, and the
\* scratch area itself is gone unless a tree still owned by root is in it.
C10_CleanupBestEffort ==
    (entry = "__main__" /\ pc = "exit") =>
        /\ err = NoErr
        /\ Has("rmtree_temp")
        /\ ~fs.raw /\ fs.zip = "none"
        /\ (fs.scratch => fs.tree # "absent" /\ fs.owner = "root")

C10_Witness ==
    /\ entry = "__main__" /\ pc = "exit"
    /\ raised.kind = "OSError" /\ Has("move") /\ Has("rmtree_temp")
    /\ ~fs.scratch

LoggedBy(c) == \E i \in 1..Len(logged) : logged[i] = c

\* C11: a MissingPrerequisite is logged and re-raised by every component it
\* passes through: it leaves prereq_programs as raised, and in a run of the
\* script it leaves run_extraction too and reaches the handler of __main__,
\* so run_extraction never returns normally after one was raised.
C11_NeverLocallyRecovered ==
    /\ (entry = "prereq_programs" /\ pc = "done" /\ raised.kind = MP) =>
           err = raised /\ LoggedBy("prereq_programs")
    /\ (entry = "__main__" /\ raised.kind = MP /\ pc \in {"main_cleanup", "exit"}) =>
           LoggedBy("run_extraction") /\ LoggedBy("__main__")

\* C12: extract returns (the output path) only with the scratch tree gone and
\* the output directory present; and when, the move made, the scratch tree is
\* still there or the output directory is not, extract fails with
\* MissingPrerequisite.
C12_RelocatePostcondition ==
    /\ (ExtractEnded /\ err = NoErr) =>
           result = <<EXTRACTED_ROOT>> /\ fs.tree = "absent" /\ isdir(fs.out)
    /\ (ExtractEnded /\ Has("move") /\ (fs.tree # "absent" \/ ~isdir(fs.out))) =>
           err.kind = MP

\* C13: in one call of extract the tools run in the order unpack, decompress,
\* chown, move, each at most once; the decompress tool is invoked only with
\* the raw image present, chown and move only with the tree in the scratch
\* area; a tree missing after the decompress tool ran raises
\* MissingPrerequisite(scratch tree path).
C13_StrictOrderNoRetry ==
    /\ \/ IsPrefix(ToolCalls, <<"unpack", "decompress", "chown", "move">>)
       \/ IsPrefix(ToolCalls, <<"decompress", "chown", "move">>)
    /\ (pc = "ex_step2" => fs.raw)
    /\ (pc \in {"ex_chown", "ex_move"} => fs.tree # "absent")
    /\ (Has("decompress") /\ ~Has("chown") /\ fs.tree = "absent" /\ pc # "ex_step2_check") =>
           /\ raised = Exc(MP, SQUASHFS_ROOT)
           /\ (ExtractEnded => err = Exc(MP, SQUASHFS_ROOT))

C13_Witness ==
    /\ ExtractEnded /\ ~start.raw
    /\ ToolCalls = <<"unpack", "decompress">>
    /\ err = Exc(MP, SQUASHFS_ROOT)

\* C14: prereq_unsquashfs, called with the binary absent, leaves the working
\* directory as it found it on every way out: returning the path, raising
\* MissingPrerequisite, or with a build step (and its chdir) having failed.
C14_CwdRestored ==
    /\ (entry = "prereq_unsquashfs" /\ pc = "done" /\ ~start.unsq) => cwd = cwd0
    /\ (stack # << >> /\ Top = "prereq_unsquashfs" /\ pc = "raise") => cwd = old_cwd

InExtract == \E i \in 1..Len(stack) : stack[i] = "extract"

\* C15: in a run of the script the three resolvers run once each, before the
\* pipeline: the output directory is not removed, extract is not entered and
\* no tool is invoked unless all three resolved, and no resolver runs again.
C15_ResolveOnceFirst ==
    entry = "__main__" =>
        /\ IsPrefix(checked, <<"prereq_hmx", "prereq_unsquashfs", "prereq_humidify">>)
        /\ (InExtract \/ ToolCalls # << >> \/ Has("rmtree")) =>
               /\ checked = <<"prereq_hmx", "prereq_unsquashfs", "prereq_humidify">>
               /\ fs.hmx /\ fs.unsq /\ fs.humidify

C15_Witness ==
    /\ entry = "__main__" /\ pc = "exit"
    /\ ~start.hmx /\ ~start.unsq
    /\ ToolCalls = <<"unpack", "decompress", "chown", "move">>
    /\ Len(checked) = 3

\* Is the file or directory a MissingPrerequisite names missing?
Missing(p) ==
    CASE p = HMX -> ~fs.hmx
      [] p = UNSQUASHFS -> ~fs.unsq
      [] p = HUMIDIFY -> ~fs.humidify
      [] p = RAW -> ~fs.raw
      [] p = SQUASHFS_ROOT -> fs.tree = "absent"
      [] p = EXTRACTED_ROOT -> ~isdir(fs.out)
      [] OTHER -> FALSE

\* C16 as stated: every failure raised by the resolvers and by extract is a
\* MissingPrerequisite carrying the missing path, the destination-exists
\* failure included.
C16_SingleErrorKind ==
    raised # NoErr =>
        /\ raised.kind = MP
        /\ raised.arg \in {HMX, UNSQUASHFS, HUMIDIFY, RAW, SQUASHFS_ROOT, EXTRACTED_ROOT}

\* C16 (amended): the failures the code raises itself are MissingPrerequisite
\* naming a path that is missing, except the destination-exists failure,
\* which is an IOError (raised exactly when the output directory exists and
\* destroy is False) and is not handled by run_extraction's
\* MissingPrerequisite handler; every other exception comes out of a library
\* call (urlopen, ZipFile, chdir, rmtree, move) and passes through unchanged.
C16_ErrorKinds ==
    /\ (pc = "raise" /\ err.kind = MP) => Missing(err.arg)
    /\ raised.kind = "IOError" =>
           /\ raised.arg = EXTRACTED_ROOT
           /\ isdir(start.out) /\ ~destroy
           /\ ~LoggedBy("run_extraction")
    /\ (ExtractEnded /\ isdir(start.out) /\ ~destroy) => err = Exc("IOError", EXTRACTED_ROOT)
    /\ (pc = "raise" /\ err.kind \notin {MP, "IOError"}) =>
           /\ err = raised
           /\ calls # << >>
           /\ calls[Len(calls)] \in {"urlopen", "unzip", "chdir", "rmtree", "move"}

C16_Witness ==
    /\ entry = "__main__" /\ pc = "exit"
    /\ raised = Exc("IOError", EXTRACTED_ROOT)
    /\ start.out = "old" /\ fs.out = "old"
    /\ logged = << >>

\* C17: with destroy=True and an existing output directory, the directory is
\* gone whenever a tool is about to be invoked, and when one of steps 1-4
\* fails extract ends with the output path absent.
C17_OldTreeGoneNoRollback ==
    (destroy /\ isdir(start.out)) =>
        /\ (pc \in {"ex_step1", "ex_step2", "ex_chown", "ex_move"} => fs.out = "absent")
        /\ (ExtractEnded /\ err # NoErr /\ ToolCalls # << >>) => fs.out = "absent"

\* C18: what run_extraction hands to the script is a path only when the
\* extraction succeeded, and then the output directory exists and holds the
\* tree; when a MissingPrerequisite was raised it is None and the output path
\* is as it was before the run.
C18_PathImpliesOutputDir ==
    (entry = "__main__" /\ pc \in {"main_cleanup", "exit"}) =>
        /\ result # None =>
               /\ result = <<EXTRACTED_ROOT>>
               /\ raised = NoErr
               /\ fs.out = "tree" /\ start.out = "absent"
               /\ Has("move")
        /\ raised.kind = MP =>
               /\ result = None
               /\ fs.out = start.out /\ fs.out # "tree"

C18_Witness ==
    /\ entry = "__main__" /\ pc = "main_cleanup"
    /\ raised = Exc(MP, SQUASHFS_ROOT)
    /\ result = None /\ fs.out = "absent"
    /\ ToolCalls = <<"unpack", "decompress">>

TypeOK ==
    /\ entry \in Entries
    /\ destroy \in BOOLEAN
    /\ run \in 1..MaxRuns
    /\ fs \in FsStates
    /\ start \in FsStates
    /\ err \in [kind : {"none", MP} \cup ExceptionKinds, arg : STRING]
====
